---- MODULE Spec2Model ----
(***************************************************************************)
(* Model of src/ebpf/afxdp.c: the XDP program xsk_redir_prog and the       *)
(* XSKMAP xsks_map it reads.                                               *)
(*                                                                         *)
(* The program runs once per received frame, on the processing context     *)
(* (cpu) serving the frame's receive queue.  It makes two separate         *)
(* accesses to xsks_map: the membership lookup (line 16) and the redirect  *)
(* dispatch (line 17).  The control plane (user space) may bind, rebind or *)
(* unbind a queue between any two steps of any invocation.  Each helper    *)
(* call and each control-plane call takes effect on a slot in one step.    *)
(***************************************************************************)
EXTENDS Integers, FiniteSets, Sequences, TLC

\* ------------------------------------------------------------------ bounds
\* Socket identifiers are 1..MaxSock.
MaxSock == 2

\* --------------------------------------------------------- program constants
\* __uint(max_entries, 64)
max_entries == 64
\* The absent result of bpf_map_lookup_elem (a null pointer).
NULL == 0
\* The flags argument of bpf_redirect_map(&xsks_map, index, 0).
RedirectFlags == 0
\* enum xdp_action, in the order of its values 0..4.
XdpActions == <<"XDP_ABORTED", "XDP_DROP", "XDP_PASS", "XDP_TX", "XDP_REDIRECT">>
\* Variant: the miss branch drops.
XDP_PASS_drop == "XDP_DROP"
\* return XDP_PASS
XDP_PASS == "XDP_PASS"

\* The processing contexts that run the program concurrently, one per
\* active receive queue.
Cpus == {"cpu0", "cpu1"}
Socks == 1..MaxSock
\* Queue indices exercised by frames and by the control plane: the first
\* slot, the last slot, and the first index past the table.
Queues == {0, max_entries - 1, max_entries}
\* The capacity specification runs one processing context and lets the
\* control plane rebind and unbind the first queue freely.
CapCpus == {"cpu0"}
CapQueues == {0}

VARIABLES
    xsks_map,   \* the Registry: a function from bound queue indices to sockets
    ctl_ret,    \* result of the control plane's last map call
    pc,         \* per cpu: "idle", "lookup", "redirect", "done"
    index,      \* per cpu: the local `index` (ctx->rx_queue_index)
    seen,       \* per cpu: what bpf_map_lookup_elem returned
    act,        \* per cpu: the program's return value
    tgt_index,  \* per cpu: index the redirect was addressed to
    tgt_value,  \* per cpu: socket the redirect resolved to
    held        \* per cpu, observation only: every value the slot of the
                \* frame's queue has held since this invocation began

vars == <<xsks_map, ctl_ret, pc, index, seen, act, tgt_index, tgt_value, held>>
prog == <<pc, index, seen, act, tgt_index, tgt_value>>

\* The content of the slot of queue q: the bound socket, or NULL.
SlotValue(map, q) ==
    IF q \in DOMAIN map THEN map[q] ELSE NULL

\* ----------------------------------------------------------- the XSKMAP
\* Variant: the key is masked into the table instead of bounds-checked.
MapLookup_mask(map, key) ==
    IF (key % max_entries) \in DOMAIN map THEN map[key % max_entries] ELSE NULL

\* Lookup of a key: the bound socket, or NULL.
MapLookup(map, key) ==
    IF key \in DOMAIN map THEN map[key] ELSE NULL

\* Variant: the bound check is off by one.
MapUpdate_offbyone(map, key, value) ==
    IF key > max_entries
    THEN [map |-> map, ret |-> "E2BIG"]
    ELSE [map |-> [k \in DOMAIN map \cup {key} |->
                      IF k = key THEN value ELSE map[k]],
          ret |-> "OK"]

\* Variant: BPF_NOEXIST, an existing entry is kept and the update refused.
MapUpdate_noexist(map, key, value) ==
    IF key >= max_entries
    THEN [map |-> map, ret |-> "E2BIG"]
    ELSE IF key \in DOMAIN map
    THEN [map |-> map, ret |-> "EEXIST"]
    ELSE [map |-> [k \in DOMAIN map \cup {key} |->
                      IF k = key THEN value ELSE map[k]],
          ret |-> "OK"]

\* Variant: the key is masked into the table instead of bounds-checked.
MapUpdate_wrap(map, key, value) ==
    [map |-> [k \in DOMAIN map \cup {key % max_entries} |->
                 IF k = key % max_entries THEN value ELSE map[k]],
     ret |-> "OK"]

\* Update with BPF_ANY: rejected past max_entries, otherwise the slot is
\* created or replaced.
MapUpdate(map, key, value) ==
    IF key >= max_entries
    THEN [map |-> map, ret |-> "E2BIG"]
    ELSE [map |-> [k \in DOMAIN map \cup {key} |->
                      IF k = key THEN value ELSE map[k]],
          ret |-> "OK"]

\* Variant: the delete reports success and leaves the slot as it was.
MapDelete_noop(map, key) ==
    IF key >= max_entries
    THEN [map |-> map, ret |-> "EINVAL"]
    ELSE [map |-> map, ret |-> "OK"]

\* Delete: rejected past max_entries, otherwise the slot is emptied.
MapDelete(map, key) ==
    IF key >= max_entries
    THEN [map |-> map, ret |-> "EINVAL"]
    ELSE [map |-> [k \in DOMAIN map \ {key} |-> map[k]], ret |-> "OK"]

\* bpf_redirect_map(map, key, flags): resolves the key in the map; on a hit
\* records the target and returns XDP_REDIRECT, on a miss returns the low
\* two bits of flags as the action.
bpf_redirect_map(map, key, flags) ==
    IF flags \div 4 # 0
    THEN [ret |-> XdpActions[1], hit |-> FALSE, value |-> NULL]
    ELSE LET v == MapLookup(map, key) IN
         IF v = NULL
         THEN [ret |-> XdpActions[(flags % 4) + 1], hit |-> FALSE, value |-> NULL]
         ELSE [ret |-> "XDP_REDIRECT", hit |-> TRUE, value |-> v]

\* ----------------------------------------------------------- xsk_redir_prog
\* Variant: the membership test looks at a fixed slot.
LookupKey_zero(idx) == 0

\* The key handed to bpf_map_lookup_elem: &index.
LookupKey(idx) == idx

\* Variant: the redirect is addressed to a fixed slot.
RedirectKey_zero(idx) == 0

\* The key handed to bpf_redirect_map: index.
RedirectKey(idx) == idx

\* Values of the slot of cpu c's frame after a map change.
Observe(map, c) ==
    IF pc[c] = "idle" THEN held[c]
    ELSE held[c] \cup {SlotValue(map, index[c])}

Init ==
    /\ xsks_map = [k \in {} |-> NULL]
    /\ ctl_ret = "OK"
    /\ pc = [c \in Cpus |-> "idle"]
    /\ index = [c \in Cpus |-> 0]
    /\ seen = [c \in Cpus |-> NULL]
    /\ act = [c \in Cpus |-> "NONE"]
    /\ tgt_index = [c \in Cpus |-> 0]
    /\ tgt_value = [c \in Cpus |-> NULL]
    /\ held = [c \in Cpus |-> {}]

\* A frame arrives on queue q and the program starts: index = rx_queue_index.
Enter(c, q) ==
    /\ pc[c] = "idle"
    /\ pc' = [pc EXCEPT ![c] = "lookup"]
    /\ index' = [index EXCEPT ![c] = q]
    /\ held' = [held EXCEPT ![c] = {SlotValue(xsks_map, q)}]
    /\ UNCHANGED <<xsks_map, ctl_ret, seen, act, tgt_index, tgt_value>>

\* if (bpf_map_lookup_elem(&xsks_map, &index)) ... else return XDP_PASS
Lookup(c) ==
    /\ pc[c] = "lookup"
    /\ LET v == MapLookup(xsks_map, LookupKey(index[c])) IN
       /\ seen' = [seen EXCEPT ![c] = v]
       /\ IF v # NULL
          THEN /\ pc' = [pc EXCEPT ![c] = "redirect"]
               /\ act' = act
          ELSE /\ pc' = [pc EXCEPT ![c] = "done"]
               /\ act' = [act EXCEPT ![c] = XDP_PASS]
    /\ UNCHANGED <<xsks_map, ctl_ret, index, tgt_index, tgt_value, held>>

\* Variant: the dispatch consumes the entry it resolved.
Redirect_consume(c) ==
    /\ pc[c] = "redirect"
    /\ LET k == RedirectKey(index[c])
           r == bpf_redirect_map(xsks_map, k, RedirectFlags) IN
       /\ act' = [act EXCEPT ![c] = r.ret]
       /\ tgt_value' = [tgt_value EXCEPT ![c] = r.value]
       /\ tgt_index' = [tgt_index EXCEPT ![c] = IF r.hit THEN k ELSE @]
       /\ xsks_map' = MapDelete(xsks_map, k).map
    /\ pc' = [pc EXCEPT ![c] = "done"]
    /\ UNCHANGED <<ctl_ret, index, seen, held>>

\* return bpf_redirect_map(&xsks_map, index, 0)
Redirect(c) ==
    /\ pc[c] = "redirect"
    /\ LET k == RedirectKey(index[c])
           r == bpf_redirect_map(xsks_map, k, RedirectFlags) IN
       /\ act' = [act EXCEPT ![c] = r.ret]
       /\ tgt_value' = [tgt_value EXCEPT ![c] = r.value]
       /\ tgt_index' = [tgt_index EXCEPT ![c] = IF r.hit THEN k ELSE @]
    /\ pc' = [pc EXCEPT ![c] = "done"]
    /\ UNCHANGED <<xsks_map, ctl_ret, index, seen, held>>

\* The host consumes the decision; nothing of the invocation is kept.
Return(c) ==
    /\ pc[c] = "done"
    /\ pc' = [pc EXCEPT ![c] = "idle"]
    /\ index' = [index EXCEPT ![c] = 0]
    /\ seen' = [seen EXCEPT ![c] = NULL]
    /\ act' = [act EXCEPT ![c] = "NONE"]
    /\ tgt_index' = [tgt_index EXCEPT ![c] = 0]
    /\ tgt_value' = [tgt_value EXCEPT ![c] = NULL]
    /\ held' = [held EXCEPT ![c] = {}]
    /\ UNCHANGED <<xsks_map, ctl_ret>>

\* ----------------------------------------------------------- control plane
\* Bind (or rebind) queue q to socket s.
Bind(q, s) ==
    /\ LET r == MapUpdate(xsks_map, q, s) IN
       /\ xsks_map' = r.map
       /\ ctl_ret' = r.ret
       /\ held' = [c \in Cpus |-> Observe(r.map, c)]
    /\ UNCHANGED prog

\* Unbind queue q.
Unbind(q) ==
    /\ LET r == MapDelete(xsks_map, q) IN
       /\ xsks_map' = r.map
       /\ ctl_ret' = r.ret
       /\ held' = [c \in Cpus |-> Observe(r.map, c)]
    /\ UNCHANGED prog

\* The socket the capacity scenario binds to queue q.
SockOf(q) == (q % MaxSock) + 1

\* Capacity scenario: the control plane binds queues 0, 1, 2, ... in order,
\* each to its own socket, and goes on to try the index past the last slot.
Fill(q) ==
    /\ q \notin DOMAIN xsks_map
    /\ \A k \in 0..(q - 1) : k \in DOMAIN xsks_map
    /\ Bind(q, SockOf(q))

Next ==
    \/ \E c \in Cpus, q \in Queues : Enter(c, q)
    \/ \E c \in Cpus : Lookup(c)
    \/ \E c \in Cpus : Redirect(c)
    \/ \E c \in Cpus : Return(c)
    \/ \E q \in Queues, s \in Socks : Bind(q, s)
    \/ \E q \in Queues : Unbind(q)

Spec == Init /\ [][Next]_vars

NextCap ==
    \/ \E c \in CapCpus, q \in Queues : Enter(c, q)
    \/ \E c \in CapCpus : Lookup(c)
    \/ \E c \in CapCpus : Redirect(c)
    \/ \E c \in CapCpus : Return(c)
    \/ \E q \in 0..max_entries : Fill(q)
    \/ \E q \in CapQueues, s \in Socks : Bind(q, s)
    \/ \E q \in CapQueues : Unbind(q)

SpecCap == Init /\ [][NextCap]_vars

\* ------------------------------------------------------------------ claims
\* held[c] = {v} says that the slot of the frame's queue held v when the
\* invocation began and has held nothing else since: the invocation runs
\* over a fixed Registry entry.

\* C1: a frame on queue q, decided while the Registry binds q to socket s,
\* gets XDP_REDIRECT, addressed to index q itself, resolving to s.
C1_RedirectToBoundSocket ==
    \A c \in Cpus : \A s \in Socks :
        (pc[c] = "done" /\ held[c] = {s}) =>
            /\ act[c] = "XDP_REDIRECT"
            /\ tgt_index[c] = index[c]
            /\ tgt_value[c] = s

\* A frame on the last slot's queue was redirected to its socket while the
\* first slot is bound to a different socket.
C1_Witness ==
    \E c \in Cpus :
        /\ pc[c] = "done" /\ index[c] = 63 /\ act[c] = "XDP_REDIRECT"
        /\ held[c] = {2} /\ tgt_value[c] = 2
        /\ 0 \in DOMAIN xsks_map /\ xsks_map[0] = 1

\* C2: a frame on queue q, decided while the Registry has no entry for q,
\* gets XDP_PASS.
C2_PassOnMiss ==
    \A c \in Cpus :
        (pc[c] = "done" /\ held[c] = {NULL}) => act[c] = "XDP_PASS"

\* A frame on an unbound in-range queue was passed while another queue is bound.
C2_Witness ==
    \E c \in Cpus :
        /\ pc[c] = "done" /\ index[c] = 0 /\ held[c] = {NULL}
        /\ act[c] = "XDP_PASS"
        /\ 63 \in DOMAIN xsks_map

\* C3: every invocation returns XDP_PASS or XDP_REDIRECT, whatever the
\* control plane does between the lookup and the dispatch.
C3_OnlyPassOrRedirect ==
    \A c \in Cpus :
        pc[c] = "done" => act[c] \in {"XDP_PASS", "XDP_REDIRECT"}

\* C4: the Registry never holds more than 64 entries, and a bind of a queue
\* that has no entry, made when 64 entries exist, is refused with E2BIG and
\* leaves the Registry as it was.
C4_CapacityRejects ==
    /\ [](Cardinality(DOMAIN xsks_map) <= 64)
    /\ [][\A q \in 0..max_entries : \A s \in Socks :
            (/\ Cardinality(DOMAIN xsks_map) = 64
             /\ q \notin DOMAIN xsks_map
             /\ Bind(q, s))
            => (ctl_ret' = "E2BIG" /\ xsks_map' = xsks_map)]_vars

\* The table is full with every queue on its original socket, the bind of
\* a 65th queue has just been refused, and a frame on the last slot's queue
\* was redirected to that slot's socket.
C4_Witness ==
    /\ Cardinality(DOMAIN xsks_map) = 64
    /\ \A k \in DOMAIN xsks_map : xsks_map[k] = SockOf(k)
    /\ ctl_ret = "E2BIG"
    /\ \E c \in CapCpus :
        /\ pc[c] = "done" /\ index[c] = 63 /\ act[c] = "XDP_REDIRECT"
        /\ tgt_value[c] = SockOf(63)

\* C5: binding an already bound queue q to socket s replaces the entry:
\* the set of bound queues is unchanged and q's entry is s; and a frame on
\* q decided over that entry is redirected to the entry's current socket.
C5_LastWriteWins ==
    /\ [][\A q \in Queues : \A s \in Socks :
            (q \in DOMAIN xsks_map /\ Bind(q, s))
            => (/\ DOMAIN xsks_map' = DOMAIN xsks_map
                /\ xsks_map'[q] = s
                /\ ctl_ret' = "OK")]_vars
    /\ [](\A c \in Cpus :
            (/\ pc[c] = "done"
             /\ index[c] \in DOMAIN xsks_map
             /\ held[c] = {xsks_map[index[c]]})
            => (act[c] = "XDP_REDIRECT" /\ tgt_value[c] = xsks_map[index[c]]))

\* Queue 0 is bound to socket 2 after having been bound to socket 1 (the
\* frame on cpu1 saw both), and a frame decided after the rebind resolved
\* to socket 2.
C5_Witness ==
    /\ 0 \in DOMAIN xsks_map /\ xsks_map[0] = 2
    /\ pc["cpu1"] # "idle" /\ index["cpu1"] = 0 /\ held["cpu1"] = {1, 2}
    /\ pc["cpu0"] = "done" /\ index["cpu0"] = 0 /\ held["cpu0"] = {2}
    /\ tgt_value["cpu0"] = 2

\* C6: unbinding a bound queue q removes q's entry and changes no other
\* entry; a frame on q decided while q has no entry is passed and resolves
\* to no socket.
C6_UnbindRemovesVisibility ==
    /\ [][\A q \in Queues :
            (q \in DOMAIN xsks_map /\ Unbind(q))
            => (/\ DOMAIN xsks_map' = DOMAIN xsks_map \ {q}
                /\ \A k \in DOMAIN xsks_map' : xsks_map'[k] = xsks_map[k])]_vars
    /\ [](\A c \in Cpus :
            (pc[c] = "done" /\ index[c] \notin DOMAIN xsks_map /\ held[c] = {NULL})
            => (act[c] = "XDP_PASS" /\ seen[c] = NULL /\ tgt_value[c] = NULL))

\* Queue 0 was bound and then unbound (the frame on cpu1 was redirected
\* before the unbind), a frame decided after the unbind was passed, and
\* the other queue is still bound.
C6_Witness ==
    /\ 0 \notin DOMAIN xsks_map /\ 63 \in DOMAIN xsks_map
    /\ pc["cpu1"] = "done" /\ index["cpu1"] = 0 /\ act["cpu1"] = "XDP_REDIRECT"
    /\ NULL \in held["cpu1"]
    /\ pc["cpu0"] = "done" /\ index["cpu0"] = 0 /\ held["cpu0"] = {NULL}
    /\ act["cpu0"] = "XDP_PASS"

\* C7: two invocations for the same queue, each over the same fixed entry
\* for that queue, return the same disposition and the same target,
\* whatever the contexts decided before and whatever the other entries are.
C7_Deterministic ==
    \A c1 \in Cpus : \A c2 \in Cpus :
        (/\ pc[c1] = "done" /\ pc[c2] = "done"
         /\ index[c1] = index[c2]
         /\ held[c1] = held[c2]
         /\ Cardinality(held[c1]) = 1)
        => (/\ act[c1] = act[c2]
            /\ tgt_value[c1] = tgt_value[c2])

\* Two contexts have decided a frame of the same bound queue.
C7_Witness ==
    /\ pc["cpu0"] = "done" /\ pc["cpu1"] = "done"
    /\ index["cpu0"] = 63 /\ index["cpu1"] = 63
    /\ held["cpu0"] = {1} /\ held["cpu1"] = {1}
    /\ act["cpu0"] = "XDP_REDIRECT"
    /\ 0 \notin DOMAIN xsks_map

\* C8: no step of the program changes the Registry.
C8_ProgramReadOnly ==
    [][(\E c \in Cpus :
            \/ \E q \in Queues : Enter(c, q)
            \/ Lookup(c)
            \/ Redirect(c)
            \/ Return(c))
       => xsks_map' = xsks_map]_vars

\* Both branches have been taken over a non-empty Registry.
C8_Witness ==
    /\ pc["cpu0"] = "done" /\ act["cpu0"] = "XDP_REDIRECT"
    /\ pc["cpu1"] = "done" /\ act["cpu1"] = "XDP_PASS"
    /\ DOMAIN xsks_map = {0, 63}

C10_OnlyIndicesBelow64 ==
    /\ [](DOMAIN xsks_map \subseteq 0..63)
    /\ [](\A c \in Cpus :
            (pc[c] = "done" /\ index[c] >= 64) => act[c] = "XDP_PASS")
    /\ [][\A q \in Queues : \A s \in Socks :
            (q >= 64 /\ Bind(q, s))
            => (ctl_ret' = "E2BIG" /\ xsks_map' = xsks_map)]_vars

\* A bind of index 64 has just been refused on an empty Registry, and a
\* frame on queue 64 was passed.
C10_Witness ==
    /\ ctl_ret = "E2BIG"
    /\ DOMAIN xsks_map = {}
    /\ pc["cpu0"] = "done" /\ index["cpu0"] = 64 /\ act["cpu0"] = "XDP_PASS"

====
